---- MODULE Spec2Model ----
(***************************************************************************)
(* SnippetBox (yehtetmaungmaung/go-web): the snippets table and the        *)
(* SnippetModel that reads and writes it, the HTTP handlers, the template  *)
(* cache and the render helper.                                            *)
(*                                                                         *)
(* Time is counted in whole days (UTC_TIMESTAMP() truncated to the day):   *)
(* INTERVAL n DAY adds n to it.  Texts that the program only stores and    *)
(* copies are strings; texts that it formats or parses (the id of a query  *)
(* string, the id of a redirect target) are sequences of characters.       *)
(***************************************************************************)
EXTENDS Integers, Sequences, FiniteSets, TLC

VARIABLES
    pc,             \* main(): "start", "serving" or "exited"
    templateCache,  \* app.templateCache: the page names that have a template set
    rows,           \* the snippets table, in insertion order
    now,            \* UTC_TIMESTAMP(), in days
    op,             \* the operation or request handled last, with the faults it met
    r,              \* *http.Request of the request handled last
    w,              \* http.ResponseWriter of the request handled last
    ret,            \* what the SnippetModel call made last returned
    calls,          \* the SnippetModel calls the request handled last made
    errorLog,       \* what the request handled last wrote to the error log
    parses,         \* the template sets that the operation handled last parsed
    inflight,       \* the SnippetModel call that each goroutine is in the middle of
    openRows,       \* the sql.Rows that calls which have returned left open
    execs           \* the times the Insert called last ran its statement

vars == <<pc, templateCache, rows, now, op, r, w, ret, calls, errorLog, parses,
          inflight, openRows, execs>>

(***************************************************************************)
(* Bounds of the model.                                                    *)
(***************************************************************************)
MaxRows == 2        \* rows in the table, SpecStore
MaxNow == 2         \* last day of the clock, SpecStore and SpecLatest
MaxBulkRows == 11   \* rows in the table, SpecLatest
MaxSnippets == 2    \* rows in the table, Spec
MaxDays == 14       \* last day of the clock, Spec
MaxInFlight == 2    \* goroutines that call the SnippetModel, SpecConc

Titles == {"t1", "t2"}
Contents == {"c1"}
ExpiresDays == {-1, 0, 1}
InsertArgs == Titles \X Contents \X ExpiresDays
BulkArgs == {<<"t1", "c1", 1>>}

Min(a, b) == IF a < b THEN a ELSE b

(***************************************************************************)
(* Errors.  Nil is Go's nil error.                                         *)
(***************************************************************************)
Nil == ""
sql_ErrNoRows == "sql: no rows in result set"
ErrNoRecord == "models: no matching record found"
ErrBadConn == "driver: bad connection"
ErrScan == "sql: Scan error"
ErrLastInsertId == "LastInsertId is not supported by this driver"

\* errors.Is(err, target): none of the errors above wraps another one.
errors_Is(err, target) == err = target

(***************************************************************************)
(* internal/models: the Snippet type and the snippets table.               *)
(***************************************************************************)
Snippet(id, title, content, created, expires) ==
    [ID |-> id, Title |-> title, Content |-> content,
     Created |-> created, Expires |-> expires]

\* What a SnippetModel call returns: the id of Insert, the *Snippet of Get
\* (<<>> is the nil pointer, <<s>> points to s), the []*Snippet of Latest,
\* and the error.
Returned(id, snippet, snippets, err) ==
    [id |-> id, snippet |-> snippet, snippets |-> snippets, err |-> err]

NoReturn == Returned(0, <<>>, <<>>, Nil)

\* The statement of Insert with expires set to UTC_TIMESTAMP() alone, the
\* interval left out.
InsertRowNoInterval(table, clock, title, content, expires) ==
    Append(table, Snippet(Len(table) + 1, title, content, clock, clock))

\* An INSERT that first deletes the rows that have expired.
InsertRowPurging(table, clock, title, content, expires) ==
    Append(SelectSeq(table, LAMBDA s : s.Expires > clock),
           Snippet(Len(table) + 1, title, content, clock, clock + expires))

\* INSERT INTO snippets (title, content, created, expires)
\* VALUES(?, ?, UTC_TIMESTAMP(), DATE_ADD(UTC_TIMESTAMP(), INTERVAL ? DAY))
\* The id column is AUTO_INCREMENT.
InsertRow(table, clock, title, content, expires) ==
    Append(table, Snippet(Len(table) + 1, title, content, clock, clock + expires))

\* An Insert that runs its statement a second time when DB.Exec failed.
InsertRetrying(table, clock, title, content, expires, fault) ==
    LET stored == InsertRow(table, clock, title, content, expires) IN
    IF fault = "exec"
    THEN [rows |-> stored, ret |-> Returned(Len(stored), <<>>, <<>>, Nil), execs |-> 2]
    ELSE IF fault = "lastid"
         THEN [rows |-> stored, ret |-> Returned(0, <<>>, <<>>, ErrLastInsertId),
               execs |-> 1]
         ELSE [rows |-> stored, ret |-> Returned(Len(stored), <<>>, <<>>, Nil),
               execs |-> 1]

\* Insert(title, content, expires) (int, error): the table after the call
\* what the call returns, and the times it ran its statement.  fault:
\* "exec" when DB.Exec fails, "lastid" when Result.LastInsertId fails,
\* "none" otherwise.
Insert(table, clock, title, content, expires, fault) ==
    IF fault = "exec"
    THEN [rows |-> table, ret |-> Returned(0, <<>>, <<>>, ErrBadConn), execs |-> 1]
    ELSE LET stored == InsertRow(table, clock, title, content, expires) IN
         IF fault = "lastid"
         THEN [rows |-> stored, ret |-> Returned(0, <<>>, <<>>, ErrLastInsertId),
               execs |-> 1]
         ELSE [rows |-> stored, ret |-> Returned(Len(stored), <<>>, <<>>, Nil),
               execs |-> 1]

InsertFaults == {"none", "exec", "lastid"}

\* The statement of Get without its condition on expires:
\* SELECT ... FROM snippets WHERE id = ?
SelectByIdAnyExpiry(table, clock, id) ==
    {i \in 1..Len(table) : table[i].ID = id}

\* The statement of Get with the condition expires >= UTC_TIMESTAMP().
SelectByIdNotBefore(table, clock, id) ==
    {i \in 1..Len(table) : table[i].Expires >= clock /\ table[i].ID = id}

\* SELECT ... FROM snippets WHERE expires > UTC_TIMESTAMP() AND id = ?
SelectById(table, clock, id) ==
    {i \in 1..Len(table) : table[i].Expires > clock /\ table[i].ID = id}

\* DB.QueryRow(stmt, id) followed by row.Scan(...): the query error first,
\* sql.ErrNoRows when no row is left to read, the conversion error of
\* Scan last.
QueryRowScan(table, clock, id, fault) ==
    LET found == SelectById(table, clock, id) IN
    IF fault = "query" THEN [s |-> <<>>, err |-> ErrBadConn]
    ELSE IF found = {} THEN [s |-> <<>>, err |-> sql_ErrNoRows]
    ELSE IF fault = "scan" THEN [s |-> <<>>, err |-> ErrScan]
    ELSE [s |-> <<table[CHOOSE i \in found : TRUE]>>, err |-> Nil]

\* Get that hands the error of Scan to its caller as it is, sql.ErrNoRows
\* included.
GetUntranslated(table, clock, id, fault) ==
    LET scanned == QueryRowScan(table, clock, id, fault) IN
    IF scanned.err # Nil THEN Returned(0, <<>>, <<>>, scanned.err)
    ELSE Returned(0, scanned.s, <<>>, Nil)

\* Get(id) (*Snippet, error)
Get(table, clock, id, fault) ==
    LET scanned == QueryRowScan(table, clock, id, fault) IN
    IF scanned.err # Nil
    THEN IF errors_Is(scanned.err, sql_ErrNoRows)
         THEN Returned(0, <<>>, <<>>, ErrNoRecord)
         ELSE Returned(0, <<>>, <<>>, scanned.err)
    ELSE Returned(0, scanned.s, <<>>, Nil)

GetFaults == {"none", "query", "scan"}

\* Latest() of internal/models/snippets.go: a stub.
LatestStub == Returned(0, <<>>, <<>>, Nil)

LatestLimit == 10

\* ORDER BY id DESC over a set of rows.
RECURSIVE OrderByIdDesc(_)
OrderByIdDesc(S) ==
    IF S = {} THEN <<>>
    ELSE LET top == CHOOSE s \in S : \A t \in S : t.ID <= s.ID
         IN <<top>> \o OrderByIdDesc(S \ {top})

\* A statement without LIMIT.
Unlimited(seq, n) == seq

\* LIMIT n
Limit(seq, n) == SubSeq(seq, 1, Min(n, Len(seq)))

\* SELECT ... FROM snippets WHERE expires > UTC_TIMESTAMP()
\* ORDER BY id DESC LIMIT 10
SelectLatest(table, clock) ==
    Limit(OrderByIdDesc({table[i] : i \in {j \in 1..Len(table) : table[j].Expires > clock}}),
          LatestLimit)

\* Latest() ([]*Snippet, error) of the documented SnippetModel.  fault:
\* "query" when DB.Query fails, "scan" when rows.Scan fails on the row
\* numbered at, "iter" when rows.Err() reports a failed iteration, "none"
\* otherwise.
Latest(table, clock, fault, at) ==
    LET result == SelectLatest(table, clock) IN
    IF fault = "query" THEN Returned(0, <<>>, <<>>, ErrBadConn)
    ELSE IF fault = "scan" /\ at \in 1..Len(result) THEN Returned(0, <<>>, <<>>, ErrScan)
    ELSE IF fault = "iter" THEN Returned(0, <<>>, <<>>, ErrBadConn)
    ELSE Returned(0, <<>>, result, Nil)

LatestFaults == {"none", "query", "scan", "iter"}

\* No rows.Close(): the sql.Rows stays as it was.
rows_CloseForgotten(open) == open

\* rows.Close(), which Latest defers: the sql.Rows is closed, whether or
\* not it was closed already.
rows_Close(open) == 0

\* The sql.Rows when the loop of Latest is left: still open when a failed
\* Scan returns from inside the loop, closed by the rows.Next() that
\* returned false, at the end of the result set or on an error of the
\* iteration.
LoopLeavesOpen(result, fault, at) ==
    IF fault = "scan" /\ at \in 1..Len(result) THEN 1 ELSE 0

\* The sql.Rows of its query that the documented Latest() leaves open when
\* it returns: none was opened when DB.Query failed.
LatestLeavesOpen(table, clock, fault, at) ==
    IF fault = "query" THEN 0
    ELSE rows_Close(LoopLeavesOpen(SelectLatest(table, clock), fault, at))

(***************************************************************************)
(* The state before anything ran, and the records of the last operation.   *)
(***************************************************************************)
Operation(name, title, content, expires, id, fault, at, tmpl, failAt) ==
    [name |-> name, title |-> title, content |-> content, expires |-> expires,
     id |-> id, fault |-> fault, at |-> at, tmpl |-> tmpl, failAt |-> failAt]

\* A call of the SnippetModel made directly, not by a handler.
StoreOp(name, title, content, expires, id, fault, at) ==
    Operation(name, title, content, expires, id, fault, at, "none", 0)

NoURL == [Path |-> "", id |-> <<>>]

Request(method, path, id) == [Method |-> method, URL |-> [Path |-> path, id |-> id]]

NoRequest == Request("", "", <<>>)

NoHeader == [Allow |-> "", Location |-> NoURL, ContentType |-> "", XContentTypeOptions |-> ""]

\* A ResponseWriter nothing was written to: status 0 says that no status
\* line has been sent yet, sent holds the header map as it was sent.
NewResponseWriter ==
    [status |-> 0, header |-> NoHeader, sent |-> NoHeader, body |-> <<>>, superfluous |-> 0]

\* The goroutines that serve requests, and one that is in no call of the
\* SnippetModel.  Of a call in progress a goroutine holds the sql.Result of
\* Exec (lastInsertId) or the rows that its query selected (selected); ids
\* are the ids that its Inserts have returned so far, with the titles
\* inserted.
Goroutines == 1..MaxInFlight

Idle ==
    [pc |-> "idle", title |-> "", fault |-> "none", lastInsertId |-> 0,
     selected |-> <<>>, ids |-> <<>>]

Init ==
    /\ pc = "start"
    /\ templateCache = {}
    /\ rows = <<>>
    /\ now = 0
    /\ op = StoreOp("none", "", "", 0, 0, "none", 0)
    /\ r = NoRequest
    /\ w = NewResponseWriter
    /\ ret = NoReturn
    /\ calls = <<>>
    /\ errorLog = <<>>
    /\ parses = 0
    /\ inflight = [g \in Goroutines |-> Idle]
    /\ openRows = 0
    /\ execs = 0

\* No request is being handled by a direct call of the SnippetModel.
NoExchange ==
    /\ r' = NoRequest
    /\ w' = NewResponseWriter
    /\ calls' = <<>>
    /\ errorLog' = <<>>
    /\ parses' = 0

(***************************************************************************)
(* strconv.Atoi and the %d verb of fmt, over sequences of characters.      *)
(***************************************************************************)
Digits == <<"0", "1", "2", "3", "4", "5", "6", "7", "8", "9">>

IsDigit(c) == \E d \in 1..Len(Digits) : Digits[d] = c

DigitValue(c) == (CHOOSE d \in 1..Len(Digits) : Digits[d] = c) - 1

\* The value of a sequence of digits, most significant first.
RECURSIVE ParseDigits(_, _)
ParseDigits(s, acc) ==
    IF s = <<>> THEN acc ELSE ParseDigits(Tail(s), acc * Len(Digits) + DigitValue(Head(s)))

\* strconv.Atoi(s) (int, error): an optional sign, then digits only.
Atoi(s) ==
    LET signed == s # <<>> /\ Head(s) \in {"+", "-"}
        digits == IF signed THEN Tail(s) ELSE s
    IN IF digits = <<>> \/ \E i \in 1..Len(digits) : ~IsDigit(digits[i])
       THEN [n |-> 0, err |-> "strconv.Atoi: invalid syntax"]
       ELSE [n |-> IF signed /\ Head(s) = "-" THEN -ParseDigits(digits, 0)
                   ELSE ParseDigits(digits, 0),
             err |-> Nil]

\* The digits of a natural number, most significant first.
RECURSIVE FormatDigits(_)
FormatDigits(n) ==
    IF n < Len(Digits) THEN <<Digits[n + 1]>>
    ELSE FormatDigits(n \div Len(Digits)) \o <<Digits[(n % Len(Digits)) + 1]>>

\* fmt.Sprintf("%d", n)
Itoa(n) == IF n < 0 THEN <<"-">> \o FormatDigits(-n) ELSE FormatDigits(n)

(***************************************************************************)
(* net/http: the ResponseWriter and the helpers the handlers call.         *)
(***************************************************************************)
\* A piece of a response body: a fixed text, or a value a template or a
\* format yields under a tag.
Chunk(tag, str, num) == [tag |-> tag, str |-> str, num |-> num]

Text(str) == Chunk("text", str, 0)

\* w.Header().Set(key, value)
Header_Set(rw, key, value) == [rw EXCEPT !.header[key] = value]

\* w.WriteHeader(code): the first call sends the status line and the header
\* map as it stands; a later call changes nothing.
WriteHeader(rw, code) ==
    IF rw.status # 0 THEN [rw EXCEPT !.superfluous = @ + 1]
    ELSE [rw EXCEPT !.status = code, !.sent = rw.header]

\* w.Write(chunks): sends 200 OK first when no status was written.
Write(rw, chunks) ==
    LET started == IF rw.status = 0 THEN WriteHeader(rw, 200) ELSE rw
    IN [started EXCEPT !.body = @ \o chunks]

\* What an io.Writer handed to a template receives: nothing is written, and
\* no status is sent, when the template produced nothing.
WriteAll(rw, chunks) == IF chunks = <<>> THEN rw ELSE Write(rw, chunks)

\* http.StatusText(code)
http_StatusText(code) ==
    CASE code = 404 -> "Not Found"
      [] code = 405 -> "Method Not Allowed"
      [] code = 500 -> "Internal Server Error"
      [] code = 303 -> "See Other"
      [] OTHER -> ""

\* http.Error(w, error, code)
http_Error(rw, error, code) ==
    Write(WriteHeader(Header_Set(Header_Set(rw, "ContentType", "text/plain; charset=utf-8"),
                                 "XContentTypeOptions", "nosniff"),
                      code),
          <<Text(error)>>)

\* http.NotFound(w, r)
http_NotFound(rw) == http_Error(rw, "404 page not found", 404)

\* http.Redirect(w, r, url, code)
http_Redirect(rw, req, url, code) ==
    LET hadCT == rw.header.ContentType # ""
        located == Header_Set(rw, "Location", url)
        typed == IF ~hadCT /\ req.Method \in {"GET", "HEAD"}
                 THEN Header_Set(located, "ContentType", "text/html; charset=utf-8")
                 ELSE located
        sent == WriteHeader(typed, code)
    IN IF ~hadCT /\ req.Method = "GET"
       THEN Write(sent, <<Text(http_StatusText(code))>>)
       ELSE sent

(***************************************************************************)
(* cmd/web: what a handler has in hand while it runs.                      *)
(***************************************************************************)
Exchange(rw, log, made, table, returned) ==
    [w |-> rw, errorLog |-> log, calls |-> made, rows |-> table, ret |-> returned,
     parsed |-> 0]

\* A call of the SnippetModel as a handler's exchange records it.
Call(fn, returned) == [fn |-> fn, ret |-> returned]

\* A serverError that writes nothing to the error log.
serverErrorUnlogged(x, err) ==
    [x EXCEPT !.w = http_Error(@, http_StatusText(500), 500)]

\* app.serverError(w, err)
serverError(x, err) ==
    [x EXCEPT !.errorLog = Append(@, err),
              !.w = http_Error(@, http_StatusText(500), 500)]

\* app.clientError(w, status)
clientError(x, status) == [x EXCEPT !.w = http_Error(@, http_StatusText(status), status)]

\* app.notFound(w)
notFound(x) == clientError(x, 404)

(***************************************************************************)
(* Templates.                                                              *)
(***************************************************************************)
PageFiles == <<"home.tmpl.html", "view.tmpl.html">>

PageNames == {PageFiles[i] : i \in 1..Len(PageFiles)}

ErrParse == "template: parse error"
ErrExec == "template: error calling len: len of nil pointer"
ErrNoTemplate == "the template does not exist"

\* templateData: CurrentYear, Snippet (<<>> is nil) and Snippets.
templateData(year, snippet, snippets) ==
    [CurrentYear |-> year, Snippet |-> snippet, Snippets |-> snippets]

\* time.Now().Year(): day 0 of the clock is a day of 2023.
Year(clock) == 2023 + (clock \div 365)

\* app.newTemplateData(r)
newTemplateData(clock) == templateData(Year(clock), <<>>, <<>>)

\* {{range .Snippets}} of home.tmpl.html: one table row per snippet.
RECURSIVE RangeSnippets(_)
RangeSnippets(snippets) ==
    IF snippets = <<>> THEN <<>>
    ELSE <<Chunk("Title", Head(snippets).Title, Head(snippets).ID)>>
         \o RangeSnippets(Tail(snippets))

\* What the template "base" writes for a page, in the order it writes it.
PageOutput(page, data) ==
    IF page = "view.tmpl.html"
    THEN <<Text("<!DOCTYPE html>")>>
         \o (IF data.Snippet = <<>> THEN <<>>
             ELSE <<Chunk("Title", data.Snippet[1].Title, data.Snippet[1].ID),
                    Chunk("Content", data.Snippet[1].Content, data.Snippet[1].ID),
                    Chunk("Expires", "", data.Snippet[1].Expires)>>)
         \o <<Chunk("CurrentYear", "", data.CurrentYear)>>
    ELSE <<Text("<!DOCTYPE html>")>>
         \o (IF data.Snippets = <<>> THEN <<Text("There's nothing to see here... yet!")>>
             ELSE RangeSnippets(data.Snippets))
         \o <<Chunk("CurrentYear", "", data.CurrentYear)>>

\* ts.ExecuteTemplate(wr, "base", data): what reached wr and the error.
\* tmpl = "exec": the execution fails after failAt chunks were written.
ExecuteTemplate(page, data, tmpl, failAt) ==
    LET out == PageOutput(page, data) IN
    IF tmpl = "exec"
    THEN [written |-> SubSeq(out, 1, Min(failAt, Len(out))), err |-> ErrExec]
    ELSE [written |-> out, err |-> Nil]

\* The points at which the execution of a page can fail.
FailPoints(page, data, tmpl) ==
    IF tmpl = "exec" THEN 0..(Len(PageOutput(page, data)) - 1) ELSE {0}

\* app.render(w, status, page, data): execute into a buffer, then commit.
render(x, cache, status, page, data, tmpl, failAt) ==
    IF page \notin cache THEN serverError(x, ErrNoTemplate)
    ELSE LET buf == ExecuteTemplate(page, data, tmpl, failAt) IN
         IF buf.err # Nil THEN serverError(x, buf.err)
         ELSE [x EXCEPT !.w = WriteAll(WriteHeader(@, status), buf.written)]

\* app.render(w, status, page, data) as first written: the status, then
\* the template set executed straight into w.
render_v1(x, cache, status, page, data, tmpl, failAt) ==
    IF page \notin cache THEN serverError(x, ErrNoTemplate)
    ELSE LET run == ExecuteTemplate(page, data, tmpl, failAt)
             wrote == [x EXCEPT !.w = WriteAll(WriteHeader(@, status), run.written)]
         IN IF run.err # Nil THEN serverError(wrote, run.err) ELSE wrote

(***************************************************************************)
(* cmd/web/templates.go and main.go: the template cache and the start.     *)
(***************************************************************************)
LayoutFiles == {"base.tmpl.html", "nav.tmpl.html"}

\* The loop of newTemplateCache() returning, with the error, the map it has
\* filled so far.
ParsePagesKeepingCache(pages, cache, unparsable) ==
    LET RECURSIVE Loop(_, _)
        Loop(left, done) ==
            IF left = <<>> THEN [cache |-> done, err |-> Nil]
            ELSE IF (LayoutFiles \cup {Head(left)}) \cap unparsable # {}
                 THEN [cache |-> done, err |-> ErrParse]
                 ELSE Loop(Tail(left), done \cup {Head(left)})
    IN Loop(pages, cache)

\* The loop of newTemplateCache() over the pages that filepath.Glob found:
\* the first set of files that does not parse ends it with the error and
\* no cache.
RECURSIVE ParsePages(_, _, _)
ParsePages(pages, cache, unparsable) ==
    IF pages = <<>> THEN [cache |-> cache, err |-> Nil]
    ELSE IF (LayoutFiles \cup {Head(pages)}) \cap unparsable # {}
         THEN [cache |-> {}, err |-> ErrParse]
         ELSE ParsePages(Tail(pages), cache \cup {Head(pages)}, unparsable)

\* newTemplateCache() (map[string]*template.Template, error); found: the
\* page files on disk, unparsable: the files that do not parse.
newTemplateCache(found, unparsable) ==
    ParsePages(SelectSeq(PageFiles, LAMBDA f : f \in found), {}, unparsable)

\* The template sets that the loop of newTemplateCache() parses: those of
\* the pages found, up to the first one that fails.
ParsedSets(found, unparsable) ==
    LET pages == SelectSeq(PageFiles, LAMBDA f : f \in found)
        failing == {i \in 1..Len(pages) :
                       (LayoutFiles \cup {pages[i]}) \cap unparsable # {}}
    IN IF failing = {} THEN Len(pages)
       ELSE CHOOSE i \in failing : \A j \in failing : i <= j

\* main() that prints the error of newTemplateCache() to the error log and
\* goes on to srv.ListenAndServe().
mainPrintingError(dbOk, found, unparsable, listenOk) ==
    LET built == newTemplateCache(found, unparsable)
        parsed == ParsedSets(found, unparsable)
    IN
    IF ~dbOk THEN [pc |-> "exited", templateCache |-> {}, errorLog |-> <<ErrBadConn>>,
                   parsed |-> 0]
    ELSE IF ~listenOk
         THEN [pc |-> "exited", templateCache |-> built.cache,
               errorLog |-> <<"listen tcp: address already in use">>, parsed |-> parsed]
         ELSE [pc |-> "serving", templateCache |-> built.cache,
               errorLog |-> IF built.err # Nil THEN <<built.err>> ELSE <<>>,
               parsed |-> parsed]

\* main(): openDB, newTemplateCache, then srv.ListenAndServe(); each
\* failure ends the process through errorLog.Fatal.
main(dbOk, found, unparsable, listenOk) ==
    LET built == newTemplateCache(found, unparsable)
        parsed == ParsedSets(found, unparsable)
    IN
    IF ~dbOk THEN [pc |-> "exited", templateCache |-> {}, errorLog |-> <<ErrBadConn>>,
                   parsed |-> 0]
    ELSE IF built.err # Nil
         THEN [pc |-> "exited", templateCache |-> {}, errorLog |-> <<built.err>>,
               parsed |-> parsed]
         ELSE IF ~listenOk
              THEN [pc |-> "exited", templateCache |-> built.cache,
                    errorLog |-> <<"listen tcp: address already in use">>,
                    parsed |-> parsed]
              ELSE [pc |-> "serving", templateCache |-> built.cache, errorLog |-> <<>>,
                    parsed |-> parsed]

(***************************************************************************)
(* cmd/web/handlers.go as checked in.                                      *)
(***************************************************************************)
NilData == templateData(0, <<>>, <<>>)

\* home without the check of r.URL.Path: it answers every path that the
\* pattern "/" catches with the home page.
homeUnrestricted(x, req, tmpl, failAt) ==
    IF tmpl = "parse"
    THEN [x EXCEPT !.parsed = @ + 1,
                   !.errorLog = Append(@, ErrParse),
                   !.w = http_Error(@, "Internal Server Error", 500)]
    ELSE LET run == ExecuteTemplate("home.tmpl.html", NilData, tmpl, failAt)
             wrote == [x EXCEPT !.parsed = @ + 1, !.w = WriteAll(@, run.written)]
         IN IF run.err # Nil
            THEN [wrote EXCEPT !.errorLog = Append(@, run.err),
                               !.w = http_Error(@, "Internal Server Error", 500)]
            ELSE wrote

\* home(w, r): parses the files of the home page on every request and
\* executes the template set straight into w.
home(x, req, tmpl, failAt) ==
    IF req.URL.Path # "/" THEN [x EXCEPT !.w = http_NotFound(@)]
    ELSE IF tmpl = "parse"
         THEN [x EXCEPT !.parsed = @ + 1,
                        !.errorLog = Append(@, ErrParse),
                        !.w = http_Error(@, "Internal Server Error", 500)]
         ELSE LET run == ExecuteTemplate("home.tmpl.html", NilData, tmpl, failAt)
                  wrote == [x EXCEPT !.parsed = @ + 1, !.w = WriteAll(@, run.written)]
              IN IF run.err # Nil
                 THEN [wrote EXCEPT !.errorLog = Append(@, run.err),
                                    !.w = http_Error(@, "Internal Server Error", 500)]
                 ELSE wrote

\* snippetView(w, r)
snippetView(x, req) ==
    LET parsed == Atoi(req.URL.id) IN
    IF parsed.err # Nil THEN [x EXCEPT !.w = http_NotFound(@)]
    ELSE [x EXCEPT !.w = Write(@, <<Chunk("text", "Display a specific snippet with ID %d",
                                          parsed.n)>>)]

\* snippetCreate that sets the Allow header after http.Error() has sent
\* the header map.
snippetCreateLateAllow(x, req) ==
    IF req.Method # "POST"
    THEN [x EXCEPT !.w = Header_Set(http_Error(@, "Method Not Allowed", 405),
                                    "Allow", "POST")]
    ELSE [x EXCEPT !.w = Write(@, <<Text("Create a new snippet...")>>)]

\* snippetCreate(w, r)
snippetCreate(x, req) ==
    IF req.Method # "POST"
    THEN [x EXCEPT !.w = http_Error(Header_Set(@, "Allow", "POST"),
                                    "Method Not Allowed", 405)]
    ELSE [x EXCEPT !.w = Write(@, <<Text("Create a new snippet...")>>)]

(***************************************************************************)
(* cmd/web/handlers.go as documented: the methods of *application.         *)
(***************************************************************************)
\* app.home(w, r)
app_home(x, req, cache, clock, fault, at, tmpl, failAt) ==
    IF req.URL.Path # "/" THEN notFound(x)
    ELSE LET latest == Latest(x.rows, clock, fault, at)
             called == [x EXCEPT !.calls = Append(@, Call("Latest", latest)),
                                 !.ret = latest]
         IN IF latest.err # Nil THEN serverError(called, latest.err)
            ELSE render(called, cache, 200, "home.tmpl.html",
                        [newTemplateData(clock) EXCEPT !.Snippets = latest.snippets],
                        tmpl, failAt)

\* app.snippetView(w, r)
app_snippetView(x, req, cache, clock, fault, tmpl, failAt) ==
    LET parsed == Atoi(req.URL.id) IN
    IF parsed.err # Nil \/ parsed.n < 1 THEN notFound(x)
    ELSE LET got == Get(x.rows, clock, parsed.n, fault)
             called == [x EXCEPT !.calls = Append(@, Call("Get", got)), !.ret = got]
         IN IF got.err # Nil
            THEN IF errors_Is(got.err, ErrNoRecord) THEN notFound(called)
                 ELSE serverError(called, got.err)
            ELSE render(called, cache, 200, "view.tmpl.html",
                        [newTemplateData(clock) EXCEPT !.Snippet = got.snippet],
                        tmpl, failAt)

\* app.home(w, r) as first written for the template cache.
app_home_v1(x, req, cache, clock, fault, at, tmpl, failAt) ==
    IF req.URL.Path # "/" THEN notFound(x)
    ELSE LET latest == Latest(x.rows, clock, fault, at)
             called == [x EXCEPT !.calls = Append(@, Call("Latest", latest)),
                                 !.ret = latest]
         IN IF latest.err # Nil THEN serverError(called, latest.err)
            ELSE render_v1(called, cache, 200, "home.tmpl.html",
                           templateData(0, <<>>, latest.snippets), tmpl, failAt)

\* app.snippetView(w, r) as first written for the template cache: it asks
\* for the page "view.tmpl.htm".
app_snippetView_v1(x, req, cache, clock, fault, tmpl, failAt) ==
    LET parsed == Atoi(req.URL.id) IN
    IF parsed.err # Nil \/ parsed.n < 1 THEN notFound(x)
    ELSE LET got == Get(x.rows, clock, parsed.n, fault)
             called == [x EXCEPT !.calls = Append(@, Call("Get", got)), !.ret = got]
         IN IF got.err # Nil
            THEN IF errors_Is(got.err, ErrNoRecord) THEN notFound(called)
                 ELSE serverError(called, got.err)
            ELSE render_v1(called, cache, 200, "view.tmpl.htm",
                           templateData(0, got.snippet, <<>>), tmpl, failAt)

\* The dummy data of app.snippetCreate.
DummyTitle == "0 snail"
DummyContent == "0 snaill\nClimb Mount fuji,\nBut slowly, slowly!\n\n- Kobayashi Issa"
DummyExpires == 7

ViewURL(id) == [Path |-> "/snippet/view", id |-> Itoa(id)]

\* app.snippetCreate(w, r)
app_snippetCreate(x, req, clock, fault) ==
    IF req.Method # "POST"
    THEN clientError([x EXCEPT !.w = Header_Set(@, "Allow", "POST")], 405)
    ELSE LET done == Insert(x.rows, clock, DummyTitle, DummyContent, DummyExpires, fault)
             called == [x EXCEPT !.calls = Append(@, Call("Insert", done.ret)),
                                 !.ret = done.ret, !.rows = done.rows]
         IN IF done.ret.err # Nil THEN serverError(called, done.ret.err)
            ELSE [called EXCEPT !.w = http_Redirect(@, req, ViewURL(done.ret.id), 303)]

(***************************************************************************)
(* The SnippetModel called directly, and the clock.                        *)
(***************************************************************************)
\* Days pass: one of the steps, at most until the day max.
\* A clock that can also be set back.
TickEitherWay(steps, max) ==
    \E d \in steps :
        /\ now + d <= max \/ now - d >= 0
        /\ now' \in {t \in {now + d, now - d} : t >= 0 /\ t <= max}
        /\ op' = StoreOp("Tick", "", "", 0, 0, "none", 0)
        /\ ret' = NoReturn
        /\ NoExchange
        /\ UNCHANGED <<pc, templateCache, rows, inflight, openRows, execs>>

Tick(steps, max) ==
    \E d \in steps :
        /\ now + d <= max
        /\ now' = now + d
        /\ op' = StoreOp("Tick", "", "", 0, 0, "none", 0)
        /\ ret' = NoReturn
        /\ NoExchange
        /\ UNCHANGED <<pc, templateCache, rows, inflight, openRows, execs>>

InsertCall(args, max) ==
    \E a \in args, fault \in InsertFaults :
        /\ Len(rows) < max
        /\ LET done == Insert(rows, now, a[1], a[2], a[3], fault) IN
               /\ rows' = done.rows
               /\ ret' = done.ret
               /\ execs' = done.execs
        /\ op' = StoreOp("Insert", a[1], a[2], a[3], 0, fault, 0)
        /\ NoExchange
        /\ UNCHANGED <<pc, templateCache, now, inflight, openRows>>

GetCall ==
    \E id \in -1..(Len(rows) + 1), fault \in GetFaults :
        /\ ret' = Get(rows, now, id, fault)
        /\ op' = StoreOp("Get", "", "", 0, id, fault, 0)
        /\ NoExchange
        /\ UNCHANGED <<pc, templateCache, rows, now, inflight, openRows, execs>>

\* The rows a scan can fail on: those of the result set.
ScanPoints(fault) ==
    IF fault = "scan" THEN 1..Len(SelectLatest(rows, now)) ELSE {0}

LatestCall ==
    \E fault \in LatestFaults :
        \E at \in ScanPoints(fault) :
            /\ ret' = Latest(rows, now, fault, at)
            /\ openRows' = openRows + LatestLeavesOpen(rows, now, fault, at)
            /\ op' = StoreOp("Latest", "", "", 0, 0, fault, at)
            /\ NoExchange
            /\ UNCHANGED <<pc, templateCache, rows, now, inflight, execs>>

LatestStubCall ==
    /\ ret' = LatestStub
    /\ op' = StoreOp("LatestStub", "", "", 0, 0, "none", 0)
    /\ NoExchange
    /\ UNCHANGED <<pc, templateCache, rows, now, inflight, openRows, execs>>

StoreTick == Tick(1..MaxNow, MaxNow)
StoreInsert == InsertCall(InsertArgs, MaxRows)
BulkInsert == InsertCall(BulkArgs, MaxBulkRows)

NextStore == StoreTick \/ StoreInsert \/ GetCall \/ LatestCall \/ LatestStubCall

\* The models package under any sequence of calls.
SpecStore == Init /\ [][NextStore]_vars

NextLatest == StoreTick \/ BulkInsert \/ LatestCall \/ LatestStubCall

\* The models package with a table that outgrows the limit of Latest.
SpecLatest == Init /\ [][NextLatest]_vars

(***************************************************************************)
(* The SnippetModel called by goroutines that serve requests at the same   *)
(* time.  A step is a statement that the database executes as one, or the  *)
(* part of a method that uses what the statement returned.                 *)
(***************************************************************************)
\* What goroutine g inserts: the first one "t1", the others "t2".
ConcArgs(g) == {<<IF g = 1 THEN "t1" ELSE "t2", "c1", 1>>}

\* m.DB.Exec(stmt, title, content, expires): the table after the statement
\* and the sql.Result, which carries the AUTO_INCREMENT id of the row that
\* this statement inserted.
Exec(table, clock, title, content, expires, fault) ==
    IF fault = "exec" THEN [rows |-> table, lastInsertId |-> 0, err |-> ErrBadConn]
    ELSE LET stored == InsertRow(table, clock, title, content, expires)
         IN [rows |-> stored, lastInsertId |-> Len(stored), err |-> Nil]

\* A goroutine that is in no call, with the ids of its Inserts kept.
Returns(local) == [Idle EXCEPT !.ids = local.ids]

\* Insert up to the return of DB.Exec.
GoInsertExec(g) ==
    /\ inflight[g].pc = "idle"
    /\ Len(rows) < MaxRows
    /\ \E a \in ConcArgs(g), fault \in InsertFaults :
          LET done == Exec(rows, now, a[1], a[2], a[3], fault) IN
              /\ rows' = done.rows
              /\ IF done.err # Nil
                 THEN /\ inflight' = inflight
                      /\ ret' = Returned(0, <<>>, <<>>, done.err)
                 ELSE /\ inflight' = [inflight EXCEPT ![g] =
                                         [@ EXCEPT !.pc = "Insert", !.title = a[1],
                                                   !.fault = fault,
                                                   !.lastInsertId = done.lastInsertId]]
                      /\ ret' = NoReturn
              /\ op' = StoreOp("Insert.Exec", a[1], a[2], a[3], g, fault, 0)
    /\ NoExchange
    /\ UNCHANGED <<pc, templateCache, now, openRows, execs>>

\* Insert that takes for the new id the highest id of the table at the
\* time it returns.
GoInsertReturnHighestId(g) ==
    /\ inflight[g].pc = "Insert"
    /\ LET local == inflight[g] IN
           IF local.fault = "lastid"
           THEN /\ ret' = Returned(0, <<>>, <<>>, ErrLastInsertId)
                /\ inflight' = [inflight EXCEPT ![g] = Returns(local)]
           ELSE /\ ret' = Returned(Len(rows), <<>>, <<>>, Nil)
                /\ inflight' = [inflight EXCEPT ![g] =
                                   [Returns(local) EXCEPT !.ids =
                                       Append(@, [id |-> Len(rows),
                                                  title |-> local.title])]]
    /\ op' = StoreOp("Insert.LastInsertId", "", "", 0, g, inflight[g].fault, 0)
    /\ NoExchange
    /\ UNCHANGED <<pc, templateCache, rows, now, openRows, execs>>

\* Insert from result.LastInsertId() to its return.
GoInsertReturn(g) ==
    /\ inflight[g].pc = "Insert"
    /\ LET local == inflight[g] IN
           IF local.fault = "lastid"
           THEN /\ ret' = Returned(0, <<>>, <<>>, ErrLastInsertId)
                /\ inflight' = [inflight EXCEPT ![g] = Returns(local)]
           ELSE /\ ret' = Returned(local.lastInsertId, <<>>, <<>>, Nil)
                /\ inflight' = [inflight EXCEPT ![g] =
                                   [Returns(local) EXCEPT !.ids =
                                       Append(@, [id |-> local.lastInsertId,
                                                  title |-> local.title])]]
    /\ op' = StoreOp("Insert.LastInsertId", "", "", 0, g, inflight[g].fault, 0)
    /\ NoExchange
    /\ UNCHANGED <<pc, templateCache, rows, now, openRows, execs>>

\* Get up to the return of DB.QueryRow: the sql.Row holds what the
\* statement selected.
GoGetQuery(g) ==
    /\ inflight[g].pc = "idle"
    /\ \E id \in 1..(Len(rows) + 1) :
          /\ inflight' = [inflight EXCEPT ![g] =
                             [@ EXCEPT !.pc = "Get",
                                       !.selected = QueryRowScan(rows, now, id, "none").s]]
          /\ op' = StoreOp("Get.QueryRow", "", "", 0, g, "none", id)
    /\ ret' = NoReturn
    /\ NoExchange
    /\ UNCHANGED <<pc, templateCache, rows, now, openRows, execs>>

\* Get from row.Scan to its return.
GoGetScan(g) ==
    /\ inflight[g].pc = "Get"
    /\ ret' = IF inflight[g].selected = <<>>
              THEN Returned(0, <<>>, <<>>, ErrNoRecord)
              ELSE Returned(0, inflight[g].selected, <<>>, Nil)
    /\ inflight' = [inflight EXCEPT ![g] = Returns(@)]
    /\ op' = StoreOp("Get.Scan", "", "", 0, g, "none", 0)
    /\ NoExchange
    /\ UNCHANGED <<pc, templateCache, rows, now, openRows, execs>>

\* Latest up to the return of DB.Query: the sql.Rows hold what the
\* statement selected.
GoLatestQuery(g) ==
    /\ inflight[g].pc = "idle"
    /\ inflight' = [inflight EXCEPT ![g] =
                       [@ EXCEPT !.pc = "Latest", !.selected = SelectLatest(rows, now)]]
    /\ op' = StoreOp("Latest.Query", "", "", 0, g, "none", 0)
    /\ ret' = NoReturn
    /\ NoExchange
    /\ UNCHANGED <<pc, templateCache, rows, now, openRows, execs>>

\* Latest from the loop over rows.Next() to its return.
GoLatestRows(g) ==
    /\ inflight[g].pc = "Latest"
    /\ ret' = Returned(0, <<>>, inflight[g].selected, Nil)
    /\ inflight' = [inflight EXCEPT ![g] = Returns(@)]
    /\ op' = StoreOp("Latest.Rows", "", "", 0, g, "none", 0)
    /\ NoExchange
    /\ UNCHANGED <<pc, templateCache, rows, now, openRows, execs>>

NextConc ==
    \/ \E g \in Goroutines : GoInsertExec(g)
    \/ \E g \in Goroutines : GoInsertReturn(g)
    \/ \E g \in Goroutines : GoGetQuery(g)
    \/ \E g \in Goroutines : GoGetScan(g)
    \/ \E g \in Goroutines : GoLatestQuery(g)
    \/ \E g \in Goroutines : GoLatestRows(g)

\* The models package called by concurrent requests.
SpecConc == Init /\ [][NextConc]_vars

(***************************************************************************)
(* The web application: the start and the requests.                        *)
(***************************************************************************)
Methods == {"GET", "POST", "PUT"}
ReadMethods == {"GET"}
HomePaths == {"/", "/missing"}

\* The id parameters of the requests: none or empty, not a number, signed,
\* zero, and the ids around those of the table.
QueryIds ==
    {<<>>, <<"a", "b", "c">>, <<"1", "a">>, <<"-", "1">>, <<"+", "1">>}
    \cup {Itoa(n) : n \in 0..(MaxSnippets + 1)}

\* The request a handler starts on.
Fresh == Exchange(NewResponseWriter, <<>>, <<>>, rows, NoReturn)

\* The request is answered: x is what the handler left behind.
Handled(x) ==
    /\ w' = x.w
    /\ errorLog' = x.errorLog
    /\ calls' = x.calls
    /\ rows' = x.rows
    /\ ret' = x.ret
    /\ parses' = x.parsed

WebOp(name, id, fault, at, tmpl, failAt) ==
    Operation(name, "", "", 0, id, fault, at, tmpl, failAt)

\* The start of the process, with what main() met: whether openDB and
\* ListenAndServe succeed, the page files on disk and the files that do not
\* parse.
StartOp(dbOk, found, unparsable, listenOk) ==
    [name |-> "main", title |-> "", content |-> "", expires |-> 0, id |-> 0,
     fault |-> "none", at |-> 0, tmpl |-> "none", failAt |-> 0,
     dbOk |-> dbOk, found |-> found, unparsable |-> unparsable, listenOk |-> listenOk]

Main ==
    /\ pc = "start"
    /\ \E dbOk \in BOOLEAN, found \in SUBSET PageNames,
          unparsable \in SUBSET (PageNames \cup LayoutFiles), listenOk \in BOOLEAN :
          LET started == main(dbOk, found, unparsable, listenOk) IN
              /\ pc' = started.pc
              /\ templateCache' = started.templateCache
              /\ errorLog' = started.errorLog
              /\ parses' = started.parsed
              /\ op' = StartOp(dbOk, found, unparsable, listenOk)
    /\ r' = NoRequest
    /\ w' = NewResponseWriter
    /\ ret' = NoReturn
    /\ calls' = <<>>
    /\ UNCHANGED <<rows, now, inflight, openRows, execs>>

\* The clock of the web application advances by the lifetime of a snippet
\* that app.snippetCreate stores.
WebTick == pc = "serving" /\ Tick({DummyExpires}, MaxDays)

TemplateFaults == {"none", "exec"}

Home ==
    /\ pc = "serving"
    /\ \E method \in ReadMethods, path \in HomePaths :
       \E tmpl \in (IF path = "/" THEN TemplateFaults \cup {"parse"} ELSE {"none"}) :
       \E failAt \in FailPoints("home.tmpl.html", NilData, tmpl) :
          /\ r' = Request(method, path, <<>>)
          /\ op' = WebOp("home", 0, "none", 0, tmpl, failAt)
          /\ Handled(home(Fresh, r', tmpl, failAt))
    /\ UNCHANGED <<pc, templateCache, now, inflight, openRows, execs>>

SnippetView ==
    /\ pc = "serving"
    /\ \E method \in ReadMethods, id \in QueryIds :
          /\ r' = Request(method, "/snippet/view", id)
          /\ op' = WebOp("snippetView", 0, "none", 0, "none", 0)
          /\ Handled(snippetView(Fresh, r'))
    /\ UNCHANGED <<pc, templateCache, now, inflight, openRows, execs>>

SnippetCreate ==
    /\ pc = "serving"
    /\ \E method \in Methods :
          /\ r' = Request(method, "/snippet/create", <<>>)
          /\ op' = WebOp("snippetCreate", 0, "none", 0, "none", 0)
          /\ Handled(snippetCreate(Fresh, r'))
    /\ UNCHANGED <<pc, templateCache, now, inflight, openRows, execs>>

AppHome ==
    /\ pc = "serving"
    /\ \E method \in ReadMethods, path \in HomePaths :
       \E fault \in (IF path = "/" THEN LatestFaults ELSE {"none"}) :
       \E at \in ScanPoints(fault) :
       \E tmpl \in (IF path = "/" /\ Latest(rows, now, fault, at).err = Nil
                       /\ "home.tmpl.html" \in templateCache
                    THEN TemplateFaults ELSE {"none"}) :
       \E failAt \in FailPoints("home.tmpl.html",
                                [newTemplateData(now) EXCEPT
                                    !.Snippets = Latest(rows, now, fault, at).snippets],
                                tmpl) :
          /\ r' = Request(method, path, <<>>)
          /\ op' = WebOp("app.home", 0, fault, at, tmpl, failAt)
          /\ Handled(app_home(Fresh, r', templateCache, now, fault, at, tmpl, failAt))
    /\ UNCHANGED <<pc, templateCache, now, inflight, openRows, execs>>

\* Whether app.snippetView, asked for id, gets as far as executing the
\* view page under the fault.
Renders(id, fault) ==
    /\ Atoi(id).err = Nil
    /\ Atoi(id).n >= 1
    /\ Get(rows, now, Atoi(id).n, fault).err = Nil
    /\ "view.tmpl.html" \in templateCache

AppSnippetView ==
    /\ pc = "serving"
    /\ \E method \in ReadMethods, id \in QueryIds :
       \E fault \in (IF Atoi(id).err = Nil /\ Atoi(id).n >= 1 THEN GetFaults ELSE {"none"}) :
       \E tmpl \in (IF Renders(id, fault) THEN TemplateFaults ELSE {"none"}) :
       \E failAt \in FailPoints("view.tmpl.html",
                                [newTemplateData(now) EXCEPT
                                    !.Snippet = Get(rows, now, Atoi(id).n, fault).snippet],
                                tmpl) :
          /\ r' = Request(method, "/snippet/view", id)
          /\ op' = WebOp("app.snippetView", 0, fault, 0, tmpl, failAt)
          /\ Handled(app_snippetView(Fresh, r', templateCache, now, fault, tmpl, failAt))
    /\ UNCHANGED <<pc, templateCache, now, inflight, openRows, execs>>

AppHomeV1 ==
    /\ pc = "serving"
    /\ \E method \in ReadMethods, path \in HomePaths :
       \E fault \in (IF path = "/" THEN LatestFaults ELSE {"none"}) :
       \E at \in ScanPoints(fault) :
       \E tmpl \in (IF path = "/" /\ Latest(rows, now, fault, at).err = Nil
                       /\ "home.tmpl.html" \in templateCache
                    THEN TemplateFaults ELSE {"none"}) :
       \E failAt \in FailPoints("home.tmpl.html",
                                templateData(0, <<>>, Latest(rows, now, fault, at).snippets),
                                tmpl) :
          /\ r' = Request(method, path, <<>>)
          /\ op' = WebOp("app.home.v1", 0, fault, at, tmpl, failAt)
          /\ Handled(app_home_v1(Fresh, r', templateCache, now, fault, at, tmpl, failAt))
    /\ UNCHANGED <<pc, templateCache, now, inflight, openRows, execs>>

\* The page that app.snippetView as first written asks for is in no cache:
\* no template set is executed.
AppSnippetViewV1 ==
    /\ pc = "serving"
    /\ \E method \in ReadMethods, id \in QueryIds :
       \E fault \in (IF Atoi(id).err = Nil /\ Atoi(id).n >= 1 THEN GetFaults ELSE {"none"}) :
          /\ r' = Request(method, "/snippet/view", id)
          /\ op' = WebOp("app.snippetView.v1", 0, fault, 0, "none", 0)
          /\ Handled(app_snippetView_v1(Fresh, r', templateCache, now, fault, "none", 0))
    /\ UNCHANGED <<pc, templateCache, now, inflight, openRows, execs>>

AppSnippetCreate ==
    /\ pc = "serving"
    /\ \E method \in Methods :
       \E fault \in (IF method = "POST" THEN InsertFaults ELSE {"none"}) :
          /\ method = "POST" => Len(rows) < MaxSnippets
          /\ r' = Request(method, "/snippet/create", <<>>)
          /\ op' = WebOp("app.snippetCreate", 0, fault, 0, "none", 0)
          /\ Handled(app_snippetCreate(Fresh, r', now, fault))
    /\ UNCHANGED <<pc, templateCache, now, inflight, openRows, execs>>

Next ==
    \/ Main
    \/ WebTick
    \/ Home
    \/ SnippetView
    \/ SnippetCreate
    \/ AppHome
    \/ AppSnippetView
    \/ AppSnippetCreate
    \/ AppHomeV1
    \/ AppSnippetViewV1

\* The web application from its start.
Spec == Init /\ [][Next]_vars

(***************************************************************************)
(* cmd/web as checked in: the routes of main() and the ServeMux.  A URL    *)
(* path is the sequence of its slashes and of the names between them.      *)
(***************************************************************************)
\* The path as the string that r.URL.Path holds.
RECURSIVE String(_)
String(path) == IF path = <<>> THEN "" ELSE Head(path) \o String(Tail(path))

\* strings.HasPrefix(s, prefix)
HasPrefix(s, prefix) == Len(s) >= Len(prefix) /\ SubSeq(s, 1, Len(prefix)) = prefix

EndsInSlash(path) == path # <<>> /\ path[Len(path)] = "/"

\* The paths of the requests: the routes, paths next to them, files and
\* directories under /static/, and paths that are not clean.
URLPaths ==
    {<<"/">>,
     <<"/", "missing">>,
     <<"/", "static">>,
     <<"/", "static", "/">>,
     <<"/", "static", "/", "css", "/", "main.css">>,
     <<"/", "static", "/", "css", "/">>,
     <<"/", "static", "/", "css">>,
     <<"/", "static", "/", "missing.css">>,
     <<"/", "static", "/", "snippet", "/", "view">>,
     <<"/", "snippet">>,
     <<"/", "snippet", "/">>,
     <<"/", "snippet", "/", "view">>,
     <<"/", "snippet", "/", "view", "/">>,
     <<"/", "snippet", "/", "view", "/", "static", "/">>,
     <<"/", "snippet", "/", "create">>,
     <<"/", "static", "/", "..", "/", "snippet", "/", "view">>,
     <<"/", "/", "snippet", "/", "create">>,
     <<"/", "static", "/", ".", "/", "css", "/">>}

\* mux.Handle and mux.HandleFunc of main(): pattern and handler.
Routes ==
    {[pattern |-> <<"/", "static", "/">>, handler |-> "fileServer"],
     [pattern |-> <<"/">>, handler |-> "home"],
     [pattern |-> <<"/", "snippet", "/", "view">>, handler |-> "snippetView"],
     [pattern |-> <<"/", "snippet", "/", "create">>, handler |-> "snippetCreate"]}

\* The files and the directories of ./ui/static, as paths from it.
StaticFiles == {<<"/", "css", "/", "main.css">>, <<"/", "js", "/", "main.js">>}
StaticDirs == {<<"/">>, <<"/", "css", "/">>, <<"/", "js", "/">>}

\* The names of a path, "." dropped and ".." resolved (path.Clean).
RECURSIVE Resolve(_, _)
Resolve(path, kept) ==
    IF path = <<>> THEN kept
    ELSE IF Head(path) \in {"/", "."} THEN Resolve(Tail(path), kept)
    ELSE IF Head(path) = ".."
         THEN Resolve(Tail(path),
                      IF kept = <<>> THEN kept ELSE SubSeq(kept, 1, Len(kept) - 1))
    ELSE Resolve(Tail(path), Append(kept, Head(path)))

RECURSIVE Rooted(_)
Rooted(names) ==
    IF names = <<>> THEN <<>> ELSE <<"/", Head(names)>> \o Rooted(Tail(names))

\* cleanPath(p): the sanitized path, a trailing slash kept.
cleanPath(path) ==
    LET names == Resolve(path, <<>>) IN
        IF names = <<>> THEN <<"/">>
        ELSE IF EndsInSlash(path) THEN Append(Rooted(names), "/")
        ELSE Rooted(names)

\* The route that would win if the shortest matching pattern did.
matchShortest(path) ==
    LET exact == {e \in Routes : e.pattern = path}
        under == {e \in Routes : EndsInSlash(e.pattern) /\ HasPrefix(path, e.pattern)}
    IN IF exact # {} THEN CHOOSE e \in exact : TRUE
       ELSE IF under = {} THEN [pattern |-> <<>>, handler |-> "NotFound"]
       ELSE CHOOSE e \in under : \A o \in under : Len(e.pattern) <= Len(o.pattern)

\* mux.match(path): the route of the pattern equal to the path, or else of
\* the longest pattern ending in a slash that the path starts with.
match(path) ==
    LET exact == {e \in Routes : e.pattern = path}
        under == {e \in Routes : EndsInSlash(e.pattern) /\ HasPrefix(path, e.pattern)}
    IN IF exact # {} THEN CHOOSE e \in exact : TRUE
       ELSE IF under = {} THEN [pattern |-> <<>>, handler |-> "NotFound"]
       ELSE CHOOSE e \in under : \A o \in under : Len(e.pattern) >= Len(o.pattern)

\* mux.shouldRedirect(path): a subtree is registered for the path and the
\* path itself is not.
shouldRedirect(path) ==
    /\ ~EndsInSlash(path)
    /\ \A e \in Routes : e.pattern # path
    /\ \E e \in Routes : e.pattern = Append(path, "/")

\* mux.Handler(r): the handler for the request, its pattern, and for a
\* redirect the path to go to.
mux_Handler(path) ==
    LET clean == cleanPath(path) IN
        IF shouldRedirect(clean)
        THEN [handler |-> "RedirectHandler", pattern |-> Append(clean, "/"),
              location |-> Append(clean, "/")]
        ELSE IF clean # path
        THEN [handler |-> "RedirectHandler", pattern |-> match(clean).pattern,
              location |-> clean]
        ELSE [handler |-> match(path).handler, pattern |-> match(path).pattern,
              location |-> <<>>]

\* What the file server is handed: http.StripPrefix("/static", fileServer)
\* takes the prefix off the path, and answers 404 itself to a path without it.
StripPrefix(prefix, path) ==
    IF HasPrefix(path, prefix)
    THEN [found |-> TRUE, path |-> SubSeq(path, Len(prefix) + 1, Len(path))]
    ELSE [found |-> FALSE, path |-> path]

\* http.FileServer(http.Dir("./ui/static/")): a file, the listing of a
\* directory, a redirect to a directory named without its slash, or 404.
fileServer(x, req, path) ==
    IF path \in StaticFiles
    THEN [x EXCEPT !.w = Write(@, <<Chunk("file", String(path), 0)>>)]
    ELSE IF path \in StaticDirs
    THEN [x EXCEPT !.w = Write(Header_Set(@, "ContentType", "text/html; charset=utf-8"),
                               <<Chunk("dir", String(path), 0)>>)]
    ELSE IF Append(path, "/") \in StaticDirs
    THEN [x EXCEPT !.w = WriteHeader(Header_Set(@, "Location",
                                                [Path |-> path[Len(path)] \o "/",
                                                 id |-> <<>>]),
                                     301)]
    ELSE [x EXCEPT !.w = http_NotFound(@)]

\* mux.ServeHTTP(w, r): the handler of the request answers it.
ServeMux_ServeHTTP(x, req, path, tmpl, failAt) ==
    LET route == mux_Handler(path) IN
    CASE route.handler = "RedirectHandler" ->
             [x EXCEPT !.w = http_Redirect(@, req, [Path |-> String(route.location),
                                                    id |-> req.URL.id], 301)]
      [] route.handler = "fileServer" ->
             LET inner == StripPrefix(<<"/", "static">>, path) IN
                 IF inner.found THEN fileServer(x, req, inner.path)
                 ELSE [x EXCEPT !.w = http_NotFound(@)]
      [] route.handler = "home" -> home(x, req, tmpl, failAt)
      [] route.handler = "snippetView" -> snippetView(x, req)
      [] route.handler = "snippetCreate" -> snippetCreate(x, req)
      [] OTHER -> [x EXCEPT !.w = http_NotFound(@)]

\* The path that the handler of the request sees.
Served(path) ==
    IF mux_Handler(path).handler = "fileServer"
    THEN StripPrefix(<<"/", "static">>, path).path
    ELSE path

\* main() of templates.go: the routes are registered and the server
\* listens, or log.Fatalf ends the process.
main_mux(listenOk) ==
    IF listenOk THEN [pc |-> "serving", errorLog |-> <<>>]
    ELSE [pc |-> "exited", errorLog |-> <<"listen tcp: address already in use">>]

MuxOp(name, path, tmpl, failAt) ==
    [name |-> name, title |-> "", content |-> "", expires |-> 0, id |-> 0,
     fault |-> "none", at |-> 0, tmpl |-> tmpl, failAt |-> failAt,
     path |-> path, pattern |-> mux_Handler(path).pattern, served |-> Served(path)]

MuxMain ==
    /\ pc = "start"
    /\ \E listenOk \in BOOLEAN :
          /\ pc' = main_mux(listenOk).pc
          /\ errorLog' = main_mux(listenOk).errorLog
          /\ op' = [MuxOp("main", <<>>, "none", 0) EXCEPT !.name = "main"]
    /\ r' = NoRequest
    /\ w' = NewResponseWriter
    /\ ret' = NoReturn
    /\ calls' = <<>>
    /\ parses' = 0
    /\ UNCHANGED <<templateCache, rows, now, inflight, openRows, execs>>

MuxIds == {<<>>, Itoa(1)}

ServeHTTP ==
    /\ pc = "serving"
    /\ \E method \in Methods, path \in URLPaths, id \in MuxIds :
       \E tmpl \in (IF path = <<"/">> THEN TemplateFaults \cup {"parse"} ELSE {"none"}) :
       \E failAt \in FailPoints("home.tmpl.html", NilData, tmpl) :
          /\ r' = Request(method, String(path), id)
          /\ op' = MuxOp(mux_Handler(path).handler, path, tmpl, failAt)
          /\ Handled(ServeMux_ServeHTTP(Fresh, r', path, tmpl, failAt))
    /\ UNCHANGED <<pc, templateCache, now, inflight, openRows, execs>>

NextMux == MuxMain \/ ServeHTTP

\* The checked-in web application behind its ServeMux.
SpecMux == Init /\ [][NextMux]_vars

(***************************************************************************)
(* Properties of internal/models.                                          *)
(***************************************************************************)
\* The rows that the statement of Get must find for id on the day now.
Matching(id) == {i \in DOMAIN rows : rows[i].ID = id /\ rows[i].Expires > now}

\* C3: Get(id) for an id with no matching row returns ErrNoRecord and a nil
\* snippet, never sql.ErrNoRows and never a generic error; a failed query,
\* and a failed scan of a matching row, return a generic error that is not
\* ErrNoRecord, and a nil snippet.
C3_GetNotFoundIsErrNoRecord ==
    op.name = "Get" =>
        /\ ret.err # sql_ErrNoRows
        /\ (op.fault # "query" /\ Matching(op.id) = {}) =>
               (ret.err = ErrNoRecord /\ ret.snippet = <<>>)
        /\ (op.fault = "query" \/ (op.fault = "scan" /\ Matching(op.id) # {})) =>
               (ret.err \notin {Nil, ErrNoRecord, sql_ErrNoRows} /\ ret.snippet = <<>>)

\* Get found no row for an id of a table that has rows, and said ErrNoRecord.
C3_Witness ==
    /\ op.name = "Get"
    /\ op.fault # "query"
    /\ rows # <<>>
    /\ Matching(op.id) = {}
    /\ ret.err = ErrNoRecord

\* C4: whatever was inserted and however much time passed, a snippet whose
\* expires is not later than now is not returned by Get and is not in the
\* result of Latest, and no step removes or changes a stored row.
C4_ExpiredNeverReturned ==
    [][/\ Len(rows') >= Len(rows)
       /\ \A i \in DOMAIN rows : rows'[i] = rows[i]
       /\ (op'.name = "Get" /\ ret'.snippet # <<>>) =>
              /\ ret'.snippet[1].Expires > now'
              /\ \E i \in DOMAIN rows' : rows'[i] = ret'.snippet[1]
       /\ op'.name \in {"Latest", "LatestStub"} =>
              \A k \in DOMAIN ret'.snippets :
                  /\ ret'.snippets[k].Expires > now'
                  /\ \E i \in DOMAIN rows' : rows'[i] = ret'.snippets[k]]_vars

\* Get was asked for a stored row that has expired, and said ErrNoRecord.
C4_Witness ==
    /\ op.name = "Get"
    /\ op.fault = "none"
    /\ \E i \in DOMAIN rows :
           /\ rows[i].ID = op.id
           /\ rows[i].Created < rows[i].Expires
           /\ rows[i].Expires <= now
    /\ ret.err = ErrNoRecord
    /\ ret.snippet = <<>>

\* C5: a successful Latest() returns at most 10 snippets, and their ids are
\* strictly descending.
C5_LatestAtMostTenDescending ==
    (op.name \in {"Latest", "LatestStub"} /\ ret.err = Nil) =>
        /\ Len(ret.snippets) <= 10
        /\ \A i, j \in DOMAIN ret.snippets :
               i < j => ret.snippets[i].ID > ret.snippets[j].ID

\* Latest returned 10 snippets of a table with more than 10 unexpired rows.
C5_Witness ==
    /\ op.name = "Latest"
    /\ ret.err = Nil
    /\ Len(ret.snippets) = 10
    /\ Cardinality({i \in DOMAIN rows : rows[i].Expires > now}) > 10

\* The record that a successful Insert of the last operation stored: the
\* row of the returned id, with the title and the content given, created
\* now, and expires the given number of days later.
InsertStored ==
    /\ ret.id \in DOMAIN rows
    /\ rows[ret.id].ID = ret.id
    /\ rows[ret.id].Title = op.title
    /\ rows[ret.id].Content = op.content
    /\ rows[ret.id].Created = now
    /\ rows[ret.id].Expires = rows[ret.id].Created + op.expires

\* A Get of the returned id, made before anything else happens, returns
\* the stored record.
InsertedIsGot ==
    LET got == Get(rows, now, ret.id, "none") IN
        /\ got.err = Nil
        /\ got.snippet = <<rows[ret.id]>>

\* C6 as stated: a successful Insert(title, content, N) stores a record
\* with expires = created + N days, and a Get of the returned id made
\* immediately afterwards returns that record, whatever N is.
C6_InsertThenGetAnyDays ==
    (op.name = "Insert" /\ ret.err = Nil) => (InsertStored /\ InsertedIsGot)

\* C6, amended: a successful Insert(title, content, N) stores a record with
\* expires = created + N days; when N >= 1, a Get of the returned id made
\* immediately afterwards returns that record.
C6_InsertThenGet ==
    (op.name = "Insert" /\ ret.err = Nil) =>
        /\ InsertStored
        /\ op.expires >= 1 => InsertedIsGot

\* A second row was inserted with one day to live.
C6_Witness ==
    /\ op.name = "Insert"
    /\ ret.err = Nil
    /\ op.expires >= 1
    /\ ret.id = 2
    /\ InsertedIsGot

(***************************************************************************)
(* Properties of the handlers.  The handlers are named as op names them:   *)
(* those of handlers.go as checked in, and the methods of *application.    *)
(***************************************************************************)
RenderingHandlers == {"home", "app.home", "app.snippetView"}
ViewHandlers == {"snippetView", "app.snippetView"}
CreateHandlers == {"snippetCreate", "app.snippetCreate"}

GenericErrorBody == <<Text("Internal Server Error")>>

\* The last request went to one of the handlers, which executed a template
\* set, and the execution failed: the response is a 500 whose body is the
\* generic error text and nothing else.
FailedRenderIsClean500(handlers) ==
    (op.name \in handlers /\ op.tmpl = "exec") =>
        /\ w.status = 500
        /\ w.body = GenericErrorBody

\* C1: whenever the execution of a page's template set fails, the response
\* has status 500 and its body is exactly the generic error text: no output
\* of the failed template and no success status reaches the client, for
\* every handler that renders a page.
C1_FailedRenderIsClean500 == FailedRenderIsClean500(RenderingHandlers)

\* The id parameter of the last request is missing, no integer, or an
\* integer below 1.
BadId == Atoi(r.URL.id).err # Nil \/ Atoi(r.URL.id).n < 1

BadIdIs404(handlers) == (op.name \in handlers /\ BadId) => w.status = 404

\* C2: a request to the snippet-view handler whose id parameter is missing,
\* is no integer, or is an integer less than 1, is answered with a 404.
C2_BadIdIs404 == BadIdIs404(ViewHandlers)

\* C7: a request to the snippet-create handler whose method is not POST is
\* answered with a 405 that carries the header Allow: POST, the handler
\* calls no method of the SnippetModel and the table stays as it was.
C7_NonPostIs405 ==
    [][(op'.name \in CreateHandlers /\ r'.Method # "POST") =>
           /\ w'.status = 405
           /\ w'.sent.Allow = "POST"
           /\ calls' = <<>>
           /\ rows' = rows]_vars

\* A PUT to the snippet-create handler of the application whose table has a
\* row was answered with a 405 and Allow: POST.
C7_Witness ==
    /\ op.name \in CreateHandlers
    /\ r.Method = "PUT"
    /\ rows # <<>>
    /\ w.status = 405
    /\ w.sent.Allow = "POST"

PostInsertsAndRedirects(handlers) ==
    (op.name \in handlers /\ r.Method = "POST") =>
        /\ Len(calls) = 1
        /\ calls[1].fn = "Insert"
        /\ calls[1].ret.err = Nil =>
               /\ w.status = 303
               /\ w.sent.Location = [Path |-> "/snippet/view", id |-> Itoa(calls[1].ret.id)]
        /\ calls[1].ret.err # Nil =>
               /\ w.status = 500
               /\ w.sent.Location = NoURL

\* C8: every POST to the snippet-create handler makes exactly one Insert;
\* when the Insert succeeds the response is a 303 whose Location is
\* /snippet/view?id=<id> with the id that Insert returned, when it fails
\* the response is a 500 without a redirect.
C8_PostInsertsAndRedirects == PostInsertsAndRedirects(CreateHandlers)

\* The body holds the content of a snippet.
ShowsContent(body, content) ==
    \E i \in DOMAIN body : body[i].tag = "Content" /\ body[i].str = content

\* A POST was answered with a redirect, and the next request is a GET of
\* the redirect target that one of the handlers serves, no fault on its
\* way and the view page in the template cache: the answer is a 200 whose
\* body holds the content of the snippet the POST created.
RedirectTargetShowsContent(handlers) ==
       (/\ op.name \in CreateHandlers
        /\ r.Method = "POST"
        /\ w.status = 303
        /\ op'.name \in handlers
        /\ r'.Method = "GET"
        /\ r'.URL = w.sent.Location
        /\ op'.fault = "none"
        /\ op'.tmpl = "none"
        /\ "view.tmpl.html" \in templateCache) =>
           /\ w'.status = 200
           /\ ShowsContent(w'.body, rows[ret.id].Content)

\* C9: after a POST to /snippet/create was answered with its redirect, a
\* GET of the redirect target made immediately afterwards is answered with
\* a 200 whose body contains the content of the snippet the POST created.
C9_RedirectTargetShowsContent == [][RedirectTargetShowsContent(ViewHandlers)]_vars

\* The body holds the title of a snippet.
ShowsTitle(body, title) ==
    \E i \in DOMAIN body : body[i].tag = "Title" /\ body[i].str = title

\* The last request went to one of the handlers with a positive id, no
\* template fault on its way and the view page in the template cache: the
\* answer follows what Get returns for that id under the fault of the
\* request.
ViewFollowsGet(handlers) ==
    (/\ op.name \in handlers
     /\ ~BadId
     /\ op.tmpl = "none"
     /\ "view.tmpl.html" \in templateCache) =>
        LET got == Get(rows, now, Atoi(r.URL.id).n, op.fault) IN
            /\ got.err = ErrNoRecord => w.status = 404
            /\ got.err \notin {Nil, ErrNoRecord} => w.status = 500
            /\ got.err = Nil =>
                   /\ w.status = 200
                   /\ ShowsTitle(w.body, got.snippet[1].Title)

\* C10: a snippet-view request with a positive integer id is answered as
\* the Get of the SnippetModel decides: ErrNoRecord gives a 404, any other
\* error a 500, and a snippet a 200 with the view page of that snippet,
\* whose body contains its title.
C10_ViewFollowsGet == ViewFollowsGet(ViewHandlers)

(***************************************************************************)
(* Properties of the template cache and of the start.                      *)
(***************************************************************************)
\* A page among those found whose files do not all parse.
FailsToParse(found, unparsable) ==
    \E page \in found : page \in unparsable \/ LayoutFiles \cap unparsable # {}

\* C11: when a page that newTemplateCache discovered, or a layout file
\* parsed with it, fails to parse, newTemplateCache returns an error and no
\* cache: never a map with some of the pages.  Otherwise it returns no
\* error and a map with exactly one entry per discovered page.
C11_BuildAllOrNothing ==
    op.name = "main" =>
        LET built == newTemplateCache(op.found, op.unparsable) IN
            /\ FailsToParse(op.found, op.unparsable) =>
                   (built.err # Nil /\ built.cache = {})
            /\ ~FailsToParse(op.found, op.unparsable) =>
                   (built.err = Nil /\ built.cache = op.found)

\* main() found both pages, the second of which does not parse, and ended
\* with the error and no cache.
C11_Witness ==
    /\ op.name = "main"
    /\ op.dbOk
    /\ op.found = PageNames
    /\ op.unparsable = {"view.tmpl.html"}
    /\ pc = "exited"
    /\ templateCache = {}
    /\ errorLog = <<ErrParse>>

AllHandlers == RenderingHandlers \cup ViewHandlers \cup CreateHandlers

\* A request that one of the handlers serves parses no template set and
\* leaves the template cache as it is.
NoParseWhileServing(handlers) ==
    (pc = "serving" /\ op'.name \in handlers) =>
        /\ parses' = 0
        /\ templateCache' = templateCache

\* C12: templates are parsed once, at the start and before the server
\* accepts a request: the step that starts the serving is main(), which has
\* parsed one template set per page of the cache, and once the server
\* serves no request parses a template set or modifies the cache.
C12_ParsedOnceAtStartup ==
    [][/\ pc' = "serving" /\ pc # "serving" =>
              (op'.name = "main" /\ parses' = Cardinality(templateCache'))
       /\ pc = "serving" => pc' = "serving"
       /\ NoParseWhileServing(AllHandlers \cup {"Tick"})]_vars

CacheHandlers == {"app.home", "app.snippetView", "app.home.v1", "app.snippetView.v1"}

PagePassed(name) ==
    CASE name \in {"app.home", "app.home.v1"} -> "home.tmpl.html"
      [] name = "app.snippetView" -> "view.tmpl.html"
      [] name = "app.snippetView.v1" -> "view.tmpl.htm"

\* The last request got as far as app.render: the path and the id were
\* good and the SnippetModel returned no error.
ReachedRender ==
    /\ calls # <<>>
    /\ calls[Len(calls)].ret.err = Nil

\* render called for a page that has no entry in the cache answers with the
\* generic 500 and nothing else, and logs the missing template.
MissingPageIs500(handlers) ==
    (op.name \in handlers /\ ReachedRender /\ PagePassed(op.name) \notin templateCache) =>
        /\ w.status = 500
        /\ w.body = GenericErrorBody
        /\ errorLog = <<ErrNoTemplate>>

\* When the page files exist and parse, so that the cache has every page,
\* the render of a handler finds its page: the answer is no 500 unless the
\* execution of the template set fails.
PageFoundWhenFilesExist(handlers) ==
    (/\ op.name \in handlers
     /\ ReachedRender
     /\ templateCache = PageNames
     /\ op.tmpl = "none") =>
        /\ w.status = 200
        /\ errorLog = <<>>

\* C14: render called with a page name that has no entry in the template
\* cache answers 500 with no template output and no success status; and the
\* page names that the home and view handlers pass are keys of the cache, so
\* that their render finds the page whenever the page files exist.
C14_MissingPageOnlyWhenFilesMissing ==
    /\ MissingPageIs500(CacheHandlers)
    /\ PageFoundWhenFilesExist(CacheHandlers)

(***************************************************************************)
(* Properties of the error handling of the handlers.                       *)
(***************************************************************************)
\* The last request met a failure of the storage or of a template: the
\* SnippetModel returned an error other than ErrNoRecord, or the parsing or
\* the execution of a template set failed.
MetFailure ==
    \/ op.tmpl \in {"parse", "exec"}
    \/ /\ calls # <<>>
       /\ calls[Len(calls)].ret.err \notin {Nil, ErrNoRecord}

\* Whatever the failure was, the client gets the one generic response:
\* status 500 and the generic error text, nothing of the error itself.
GenericOnFailure(handlers) ==
    (op.name \in handlers /\ MetFailure) =>
        /\ w.status = 500
        /\ w.body = GenericErrorBody
        /\ w.sent.Location = NoURL

\* C15: whenever a handler meets a storage failure or a failure to parse or
\* execute a template, the response is the same generic 500 whichever error
\* it was: the same status and body for all of them, and no error text in
\* it.
C15_GenericOnFailure == GenericOnFailure(AllHandlers)

\* The rows of the table of snippets that a body shows, in their order.
Listing(body) == SelectSeq(body, LAMBDA c : c.tag = "Title")

\* The last request asked one of the handlers for "/", no template fault on
\* its way and the home page in the template cache: the handler made one
\* call, Latest, and answers 200 with the home page of exactly the snippets
\* that Latest returned, or the generic 500 when Latest failed.
HomeShowsLatest(handlers) ==
    (/\ op.name \in handlers
     /\ r.URL.Path = "/"
     /\ op.tmpl = "none"
     /\ "home.tmpl.html" \in templateCache) =>
        /\ Len(calls) = 1
        /\ calls[1].fn = "Latest"
        /\ calls[1].ret = Latest(rows, now, op.fault, op.at)
        /\ calls[1].ret.err = Nil =>
               /\ w.status = 200
               /\ Listing(w.body) = RangeSnippets(calls[1].ret.snippets)
        /\ calls[1].ret.err # Nil =>
               /\ w.status = 500
               /\ w.body = GenericErrorBody

\* C16: for a request to "/", the home handler fetches the latest snippets
\* from the SnippetModel and answers 200 with the home page rendered from
\* exactly that sequence; when Latest fails the answer is 500 and no page.
C16_HomeShowsLatest == HomeShowsLatest({"home", "app.home"})

(***************************************************************************)
(* Properties of the SnippetModel under concurrent calls.                  *)
(***************************************************************************)
\* The successful Inserts so far: goroutine and position among its own.
Inserted == {<<g, i>> : g \in Goroutines, i \in 1..MaxRows} \cap
            {p \in Goroutines \X (1..MaxRows) : p[2] <= Len(inflight[p[1]].ids)}

\* The ids that successful Inserts returned are pairwise distinct, and each
\* is the id of a row with the title that Insert was given.
InsertIdsDistinct ==
    /\ \A p, q \in Inserted :
           p # q => inflight[p[1]].ids[p[2]].id # inflight[q[1]].ids[q[2]].id
    /\ \A p \in Inserted :
           LET done == inflight[p[1]].ids[p[2]] IN
               /\ done.id \in DOMAIN rows
               /\ rows[done.id].ID = done.id
               /\ rows[done.id].Title = done.title

\* What the last call returned is made of whole stored rows.
ReturnedWhole ==
    /\ \A k \in DOMAIN ret.snippet : \E i \in DOMAIN rows : rows[i] = ret.snippet[k]
    /\ \A k \in DOMAIN ret.snippets : \E i \in DOMAIN rows : rows[i] = ret.snippets[k]

\* C17: however the Insert, Get and Latest calls of concurrent requests
\* interleave, each successful Exec of Insert stores exactly one row and no
\* other step touches the table, the ids that successful Inserts return are
\* pairwise distinct and are those of the rows they stored, and Get and
\* Latest return only whole stored rows.
C17_ConcurrentCallsAtomic ==
    [][/\ (op'.name = "Insert.Exec" /\ op'.fault # "exec") =>
              /\ Len(rows') = Len(rows) + 1
              /\ \A i \in DOMAIN rows : rows'[i] = rows[i]
       /\ (op'.name # "Insert.Exec" \/ op'.fault = "exec") => rows' = rows
       /\ InsertIdsDistinct'
       /\ ReturnedWhole']_vars

\* Both Inserts have returned, and the Insert of goroutine 1 ran between the
\* Exec and the return of the Insert of goroutine 2.
C17_Witness ==
    /\ \A g \in Goroutines : Len(inflight[g].ids) >= 1
    /\ inflight[1].ids[1].id > inflight[2].ids[1].id
    /\ op.name = "Insert.LastInsertId"
    /\ op.id = 2

(***************************************************************************)
(* Properties of the table over time.                                      *)
(***************************************************************************)
\* C18: a row that was inserted stays stored as it was inserted: no call
\* of Insert, Get or Latest and no passing of time updates or deletes a
\* row, and only Insert changes the table, by adding to it.
C18_RowsNeverUpdatedOrDeleted ==
    [][/\ Len(rows') >= Len(rows)
       /\ \A i \in DOMAIN rows : rows'[i] = rows[i]
       /\ op'.name # "Insert" => rows' = rows]_vars

\* An Insert has just added a row to a table that holds an expired one.
C18_Witness ==
    /\ op.name = "Insert"
    /\ ret.err = Nil
    /\ Len(rows) = 2
    /\ rows[1].Expires <= now
    /\ rows[2].Created = now

(***************************************************************************)
(* Properties of the routes.                                               *)
(***************************************************************************)
StaticPrefix == <<"/", "static", "/">>

\* The request that was just served came with a sanitized path.
ServedClean == pc = "serving" /\ op.name # "main" /\ op.name # "none"
               /\ ".." \notin {op.path[i] : i \in DOMAIN op.path}
               /\ "." \notin {op.path[i] : i \in DOMAIN op.path}
               /\ \A i \in 1..(Len(op.path) - 1) : ~(op.path[i] = "/" /\ op.path[i + 1] = "/")

\* C19: a request under /static/ is answered by the file server, which
\* sees the path without its /static prefix; /snippet/view and
\* /snippet/create are answered by their own handlers; the home handler
\* answers only paths that are under none of the other patterns.
C19_LongestPatternRoutes ==
    ServedClean =>
        /\ HasPrefix(op.path, StaticPrefix) =>
               /\ op.name = "fileServer"
               /\ <<"/", "static">> \o op.served = op.path
               /\ w = fileServer(Fresh, r, op.served).w
        /\ op.path = <<"/", "snippet", "/", "view">> =>
               /\ op.name = "snippetView"
               /\ w = snippetView(Fresh, r).w
        /\ op.path = <<"/", "snippet", "/", "create">> =>
               /\ op.name = "snippetCreate"
               /\ w = snippetCreate(Fresh, r).w
        /\ op.name = "home" =>
               /\ ~HasPrefix(op.path, StaticPrefix)
               /\ op.path # <<"/", "snippet", "/", "view">>
               /\ op.path # <<"/", "snippet", "/", "create">>

\* A file under /static/ was served from its path under ./ui/static.
C19_Witness ==
    /\ ServedClean
    /\ op.name = "fileServer"
    /\ op.path = <<"/", "static", "/", "css", "/", "main.css">>
    /\ op.served = <<"/", "css", "/", "main.css">>
    /\ w.status = 200

(***************************************************************************)
(* Properties of the error log.                                            *)
(***************************************************************************)
\* What the handlers of a set wrote to the error log for the answer given.
LoggedOnlyServerErrors(handlers) ==
    op.name \in handlers =>
        /\ w.status \in {404, 405} => errorLog = <<>>
        /\ w.status = 500 => errorLog # <<>>

\* C20: a request answered 404 (an id that is no positive integer, a
\* record that is absent) or 405 leaves no entry in the error log, and a
\* request answered 500 leaves one.
C20_LoggedOnlyServerErrors == LoggedOnlyServerErrors(AllHandlers)

\* The store failed under the view handler: 500, and the error is logged.
C20_Witness ==
    /\ op.name = "app.snippetView"
    /\ w.status = 500
    /\ ret.err = ErrBadConn
    /\ errorLog = <<ErrBadConn>>

(***************************************************************************)
(* Properties of the result sets.                                          *)
(***************************************************************************)
\* C21: when Latest() has returned, after a failed query, after a Scan that
\* failed in the middle of the result set, after a failed iteration and
\* after success, no sql.Rows is left open.
C21_LatestLeavesNoRowsOpen == openRows = 0

\* Latest returned the error of a Scan that failed on the first of two rows.
C21_Witness ==
    /\ op.name = "Latest"
    /\ op.fault = "scan"
    /\ op.at = 1
    /\ Len(SelectLatest(rows, now)) = 2
    /\ ret.err = ErrScan
    /\ openRows = 0

(***************************************************************************)
(* Properties of a failing Insert.                                         *)
(***************************************************************************)
\* C22: one call of Insert runs its INSERT statement at most once and so
\* adds at most one row; when the statement or the connection fails, and
\* whenever it returns an error, the caller gets the error with the id 0.
C22_InsertNeverRetries ==
    [][op'.name = "Insert" =>
          /\ execs' <= 1
          /\ Len(rows') <= Len(rows) + 1
          /\ op'.fault = "exec" => ret'.err = ErrBadConn
          /\ ret'.err # Nil => ret'.id = 0]_vars

\* An Insert whose statement failed returned after one execution.
C22_Witness ==
    /\ op.name = "Insert"
    /\ op.fault = "exec"
    /\ execs = 1
    /\ ret = Returned(0, <<>>, <<>>, ErrBadConn)
    /\ Len(rows) = 1

(***************************************************************************)
(* Properties of the order in which a page is committed.                   *)
(***************************************************************************)
\* The page whose template set a handler executes.
PageExecuted(name) == IF name = "home" THEN "home.tmpl.html" ELSE PagePassed(name)

\* The last request had a template set executed by the handler named.
Executed(name) ==
    IF name = "home" THEN r.URL.Path = "/" /\ op.tmpl # "parse"
    ELSE name \in CacheHandlers /\ ReachedRender /\ PagePassed(name) \in templateCache

\* The data that the handler named handed to the template set.
DataPassed(name) ==
    CASE name = "app.home" -> [newTemplateData(now) EXCEPT !.Snippets = ret.snippets]
      [] name = "app.snippetView" -> [newTemplateData(now) EXCEPT !.Snippet = ret.snippet]
      [] name = "app.home.v1" -> templateData(0, <<>>, ret.snippets)
      [] name = "app.snippetView.v1" -> templateData(0, ret.snippet, <<>>)
      [] OTHER -> NilData

\* What a complete execution writes into the buffer.
Buffer(name) == PageOutput(PageExecuted(name), DataPassed(name))

\* A render of the handlers commits in order: the status is written once,
\* after the execution has ended; when the execution failed nothing that
\* the template wrote is in the response and no status of success was sent;
\* when it succeeded the body is the whole output of the template and
\* nothing else.
CommitsInOrder(handlers) ==
    (op.name \in handlers /\ Executed(op.name)) =>
        /\ w.superfluous = 0
        /\ op.tmpl = "exec" =>
               /\ w.status = 500
               /\ \A k \in DOMAIN w.body :
                      \A j \in 1..Len(Buffer(op.name)) : w.body[k] # Buffer(op.name)[j]
        /\ op.tmpl # "exec" =>
               /\ w.status = 200
               /\ w.body = Buffer(op.name)

\* C23: on every render the execution of the template set into the buffer
\* ends successfully before the status is written, the status is written
\* before the body, the body is exactly what the buffer holds, and nothing
\* reaches the response while the template set is still being executed.
C23_RenderCommitsInOrder == CommitsInOrder(RenderingHandlers)

(***************************************************************************)
(* Properties of what Latest returns.                                      *)
(***************************************************************************)
\* The stored snippets that have not expired.
Unexpired == {rows[i] : i \in {j \in DOMAIN rows : rows[j].Expires > now}}

\* A successful Latest of the versions named returned min(k, 10) of the k
\* unexpired snippets, each once, and every unexpired snippet that it left
\* out has a smaller id than every one it returned.
ReturnsMostRecent(versions) ==
    (op.name \in versions /\ ret.err = Nil) =>
        LET returned == {ret.snippets[k] : k \in DOMAIN ret.snippets} IN
            /\ Len(ret.snippets) = Min(Cardinality(Unexpired), 10)
            /\ Cardinality(returned) = Len(ret.snippets)
            /\ returned \subseteq Unexpired
            /\ \A s \in Unexpired \ returned : \A t \in returned : s.ID < t.ID

\* C24: Latest() returns the most recent unexpired snippets: of k unexpired
\* snippets stored it returns exactly min(k, 10), and every unexpired
\* snippet it omits has a smaller id than every snippet it returns.
C24_LatestReturnsMostRecent == ReturnsMostRecent({"Latest", "LatestStub"})

(***************************************************************************)
(* Properties of the catch-all route.                                      *)
(***************************************************************************)
\* C25: for every path other than / that the pattern / routes to it, the
\* home handler answers 404 with the text of http.NotFound, parses no
\* template and writes nothing of a page.
C25_HomeOnlyAtRoot ==
    (op.name = "home" /\ op.path # <<"/">>) =>
        /\ r.URL.Path # "/"
        /\ w.status = 404
        /\ w.body = <<Text("404 page not found")>>
        /\ parses = 0
        /\ errorLog = <<>>

\* The pattern / caught a path next to a fixed route, and home answered 404.
C25_Witness ==
    /\ op.name = "home"
    /\ op.path = <<"/", "snippet", "/", "view", "/">>
    /\ op.pattern = <<"/">>
    /\ w.status = 404
    /\ parses = 0

\* An Insert that met one of the faults named and returned an error left
\* the table as it was.
FailedInsertStoresNothing(faults) ==
    (op'.name = "Insert" /\ op'.fault \in faults /\ ret'.err # Nil) => rows' = rows

\* C26: whenever Insert returns an error the stored rows are those of
\* before the call: a failed Insert leaves no new row behind.
C26_FailedInsertStoresNothing == [][FailedInsertStoresNothing(InsertFaults)]_vars

(***************************************************************************)
(* Properties of the status line and the header map.                       *)
(***************************************************************************)
\* The response of a handler named had its status written once, every
\* header that the handler set was set before that and so was sent, and a
\* 405 carries the Allow header.
StatusWrittenOnce(handlers) ==
    op.name \in handlers =>
        /\ w.superfluous = 0
        /\ w.sent = w.header
        /\ w.status = 405 => w.sent.Allow = "POST"

\* C27: on every path of every handler (home, view, create, render and the
\* error helpers) the status of the response is written at most once, and
\* the headers of the response, Allow among them, are set before it is.
C27_StatusWrittenOnce ==
    StatusWrittenOnce(AllHandlers \cup {"app.home.v1", "app.snippetView.v1"})

(***************************************************************************)
(* Properties of expiry over time.                                         *)
(***************************************************************************)
\* Get(id) has just answered not-found for a snippet that is stored.
MissedStored(id) ==
    /\ op.name = "Get"
    /\ op.id = id
    /\ id \in DOMAIN rows
    /\ ret.err = ErrNoRecord

\* The call made last did not show the snippet id: a Get of it returned no
\* snippet, and not-found unless its query failed; a Latest returned a
\* result without it.
NotShown(id) ==
    /\ (op.name = "Get" /\ op.id = id) =>
           /\ ret.snippet = <<>>
           /\ op.fault # "query" => ret.err = ErrNoRecord
    /\ op.name = "Latest" => \A k \in DOMAIN ret.snippets : ret.snippets[k].ID # id

\* C28: expiry is permanent: once Get(id) has returned not-found for a
\* stored snippet, which it does only when the snippet has expired, every
\* later Get(id) returns not-found too and no later Latest() returns the
\* snippet, whatever is called in between.
C28_ExpiryIsPermanent ==
    \A id \in 1..MaxRows : [](MissedStored(id) => []NotShown(id))

\* Get answered not-found for a snippet that was visible when it was
\* inserted and has expired since.
C28_Witness ==
    /\ MissedStored(1)
    /\ rows[1].Created < rows[1].Expires
    /\ rows[1].Expires <= now
    /\ Len(rows) = 2

\* The Insert made last was given no positive number of days and met no
\* fault: the row is stored, expired from the start, and its id returned.
StoredExpired ==
    (op'.name = "Insert" /\ op'.expires <= 0 /\ op'.fault = "none") =>
        /\ Len(rows') = Len(rows) + 1
        /\ ret' = Returned(Len(rows'), <<>>, <<>>, Nil)
        /\ rows'[ret'.id].Title = op'.title
        /\ rows'[ret'.id].Expires <= rows'[ret'.id].Created

\* C29: a snippet inserted with an expires argument of 0 or of a negative
\* number of days is stored and its id is returned without error, but no
\* Get and no Latest ever returns it, a Get made right after the Insert
\* included.
C29_NonPositiveExpiresNeverShown ==
    [][/\ StoredExpired
       /\ \A id \in DOMAIN rows' :
              rows'[id].Expires <= rows'[id].Created => NotShown(id)']_vars

\* Get was called for a snippet inserted with expires 0, at the time of
\* the Insert, and answered not-found.
C29_Witness ==
    /\ op.name = "Get"
    /\ op.fault = "none"
    /\ op.id \in DOMAIN rows
    /\ rows[op.id].Expires = rows[op.id].Created
    /\ rows[op.id].Created = now
    /\ ret = Returned(0, <<>>, <<>>, ErrNoRecord)

====
